---- MODULE Spec2Model ----
(***************************************************************************)
(* Model of app/main.py: the line-mode reply normaliser                    *)
(* (parse_model_reply and its helpers) and the /evaluate request pipeline  *)
(* (evaluate_answer -> grade_with_mistral -> call_openrouter).             *)
(*                                                                         *)
(* Text is a sequence of symbols.  A symbol is one character, except that  *)
(* the three keywords of the regular expressions ("Score", "Grade",        *)
(* "Feedback") and the sentinel feedback sentence are single symbols.      *)
(* Numbers are exact rationals [num, den] with den a power of ten; for the *)
(* digit counts reachable here float() of the same literal orders itself   *)
(* against integers and half-integers exactly as the rational does.        *)
(***************************************************************************)
EXTENDS Integers, Sequences, FiniteSets, TLC

\* ---------------------------------------------------------------- bounds
MaxFrags == 3
NumRequests == 2

\* ------------------------------------------------------- character classes
Keywords == {"Score", "Grade", "Feedback"}
Digits == {"0", "1", "2", "3", "4", "5", "6", "7", "8", "9"}
UpperGradeLetters == {"A", "B", "C", "D", "E", "F"}
LowerGradeLetters == {"a", "b", "c", "d", "e", "f"}
OtherLetters == {"x"}
NoFeedbackFound == "No feedback found."

\* the character at 1-based position i, "" past either end
At(t, i) == IF i \in 1..Len(t) THEN t[i] ELSE ""

\* \s
IsSpace(c) == c \in {" ", "\n"}

\* \d
IsDigit(c) == c \in Digits

\* \w : what the \b of the fallback pattern looks at
IsWord(c) == c \in Digits \cup UpperGradeLetters \cup LowerGradeLetters \cup OtherLetters \cup Keywords

\* \b between positions i-1 and i
WordBoundary(t, i) == IsWord(At(t, i - 1)) # IsWord(At(t, i))

DigitVal(c) ==
  CASE c = "0" -> 0 [] c = "1" -> 1 [] c = "2" -> 2 [] c = "3" -> 3 [] c = "4" -> 4
    [] c = "5" -> 5 [] c = "6" -> 6 [] c = "7" -> 7 [] c = "8" -> 8 [] c = "9" -> 9

RECURSIVE SkipSpace(_, _)
\* \s* from position i: the first position that is not whitespace
SkipSpace(t, i) == IF IsSpace(At(t, i)) THEN SkipSpace(t, i + 1) ELSE i

RECURSIVE SkipDigits(_, _)
\* \d* from position i: the first position that is not a digit
SkipDigits(t, i) == IF IsDigit(At(t, i)) THEN SkipDigits(t, i + 1) ELSE i

RECURSIVE DigitsVal(_, _, _)
\* the integer written by the digits t[i..j-1]
DigitsVal(t, i, j) == IF j <= i THEN 0 ELSE 10 * DigitsVal(t, i, j - 1) + DigitVal(t[j - 1])

RECURSIVE Pow10(_)
Pow10(k) == IF k = 0 THEN 1 ELSE 10 * Pow10(k - 1)

\* float(): the value of the literal t[i..j-1] (digits, optionally '.' digits)
Float(t, i, j) ==
  LET p == SkipDigits(t, i)
  IN IF p >= j THEN [num |-> DigitsVal(t, i, j), den |-> 1]
     ELSE [num |-> DigitsVal(t, i, p) * Pow10(j - p - 1) + DigitsVal(t, p + 1, j),
           den |-> Pow10(j - p - 1)]

NoMatch == [found |-> FALSE, from |-> 0, to |-> 0]
Match(i, j) == [found |-> TRUE, from |-> i, to |-> j]

Leftmost(S) == CHOOSE i \in S : \A j \in S : i <= j

\* ------------------------------------------------------------- SCORE_RE
\* Score\s*:\s*(?P<score>\d+(?:\.\d+)?)\s*/\s*10 anchored at i; the group is
\* t[from..to-1]
ScoreTail(t, e) ==
  LET s == SkipSpace(t, e)
      m == SkipSpace(t, s + 1)
  IN At(t, s) = "/" /\ At(t, m) = "1" /\ At(t, m + 1) = "0"

SCORE_RE_at(t, i) ==
  LET c == SkipSpace(t, i + 1)
      b == SkipSpace(t, c + 1)
      e1 == SkipDigits(t, b)
      e2 == IF At(t, e1) = "." /\ IsDigit(At(t, e1 + 1)) THEN SkipDigits(t, e1 + 1) ELSE e1
  IN IF At(t, i) = "Score" /\ At(t, c) = ":" /\ e1 > b
     THEN IF ScoreTail(t, e2) THEN Match(b, e2)
          ELSE IF ScoreTail(t, e1) THEN Match(b, e1) ELSE NoMatch
     ELSE NoMatch

SCORE_RE(t) ==
  LET S == {i \in 1..Len(t) : SCORE_RE_at(t, i).found}
  IN IF S = {} THEN NoMatch ELSE SCORE_RE_at(t, Leftmost(S))

\* ------------------------------------------------------------- GRADE_RE
\* the first character of a symbol as [A-F] with IGNORECASE sees it
GradeLetterOf(c) ==
  IF c \in UpperGradeLetters \cup LowerGradeLetters THEN c
  ELSE IF c = "Feedback" THEN "F" ELSE ""

\* Grade\s*:\s*(?P<grade>[A-F][+-]?) anchored at i: the group, "" if no match
GRADE_RE_at(t, i) ==
  LET c == SkipSpace(t, i + 1)
      g == SkipSpace(t, c + 1)
      letter == GradeLetterOf(At(t, g))
  IN IF At(t, i) = "Grade" /\ At(t, c) = ":" /\ letter # ""
     THEN IF At(t, g) # "Feedback" /\ At(t, g + 1) \in {"+", "-"}
          THEN letter \o At(t, g + 1)
          ELSE letter
     ELSE ""

GRADE_RE(t) ==
  LET S == {i \in 1..Len(t) : GRADE_RE_at(t, i) # ""}
  IN IF S = {} THEN "" ELSE GRADE_RE_at(t, Leftmost(S))

\* ---------------------------------------------------------- FEEDBACK_RE
\* Feedback\s*:\s*(?P<feedback>.+) with DOTALL anchored at i: the greedy \s*
\* gives one whitespace character back to .+ when nothing else follows
FEEDBACK_RE_at(t, i) ==
  LET c == SkipSpace(t, i + 1)
      f == SkipSpace(t, c + 1)
  IN IF At(t, i) = "Feedback" /\ At(t, c) = ":"
     THEN IF f <= Len(t) THEN Match(f, Len(t) + 1)
          ELSE IF f > c + 1 THEN Match(Len(t), Len(t) + 1) ELSE NoMatch
     ELSE NoMatch

FEEDBACK_RE(t) ==
  LET S == {i \in 1..Len(t) : FEEDBACK_RE_at(t, i).found}
  IN IF S = {} THEN NoMatch ELSE FEEDBACK_RE_at(t, Leftmost(S))

\* ------------------------------------------------- the fallback pattern
\* \b(10|[0-9](?:\.[0-9])?)\b anchored at i, alternatives and the optional
\* group tried in the order the regex engine tries them
FallbackAt(t, i) ==
  IF ~WordBoundary(t, i) THEN NoMatch
  ELSE IF At(t, i) = "1" /\ At(t, i + 1) = "0" /\ WordBoundary(t, i + 2) THEN Match(i, i + 2)
  ELSE IF ~IsDigit(At(t, i)) THEN NoMatch
  ELSE IF At(t, i + 1) = "." /\ IsDigit(At(t, i + 2)) /\ WordBoundary(t, i + 3) THEN Match(i, i + 3)
  ELSE IF WordBoundary(t, i + 1) THEN Match(i, i + 1)
  ELSE NoMatch

\* re.findall(...)[0] when the list is not empty
FindallFirst(t) ==
  LET S == {i \in 1..Len(t) : FallbackAt(t, i).found}
  IN IF S = {} THEN NoMatch ELSE FallbackAt(t, Leftmost(S))

\* ------------------------------------------------------ numeric helpers
\* clamp_score without its upper limit
clamp_score_no_upper(value) ==
  IF value.num < 0 THEN [num |-> 0, den |-> 1] ELSE value

\* max(lo, min(hi, value)) with lo = 0.0 and hi = 10.0
clamp_score(value) ==
  IF value.num > 10 * value.den THEN [num |-> 10, den |-> 1]
  ELSE IF value.num < 0 THEN [num |-> 0, den |-> 1]
  ELSE value

\* int(round(x)): Python 3 rounds an exact half to the even neighbour
RoundHalfEven(x) ==
  LET q == x.num \div x.den
      r == x.num % x.den
  IN IF 2 * r < x.den THEN q
     ELSE IF 2 * r > x.den THEN q + 1
     ELSE IF q % 2 = 0 THEN q ELSE q + 1

infer_grade(score10) ==
  LET s == clamp_score(score10)
  IN IF s.num >= 9 * s.den THEN "A"
     ELSE IF s.num >= 8 * s.den THEN "B"
     ELSE IF s.num >= 7 * s.den THEN "C"
     ELSE IF s.num >= 6 * s.den THEN "D"
     ELSE IF s.num >= 5 * s.den THEN "E"
     ELSE "F"

\* -------------------------------------------------------- string helpers
RECURSIVE LStrip(_)
LStrip(s) == IF s # <<>> /\ IsSpace(Head(s)) THEN LStrip(Tail(s)) ELSE s

RECURSIVE RStrip(_)
RStrip(s) == IF s # <<>> /\ IsSpace(s[Len(s)]) THEN RStrip(SubSeq(s, 1, Len(s) - 1)) ELSE s

\* str.strip()
Strip(s) == RStrip(LStrip(s))

\* str.splitlines(): the empty string has no lines, a final newline opens none
RECURSIVE splitlines(_)
splitlines(s) ==
  IF s = <<>> THEN <<>>
  ELSE LET N == {i \in 1..Len(s) : s[i] = "\n"}
       IN IF N = {} THEN <<s>>
          ELSE <<SubSeq(s, 1, Leftmost(N) - 1)>> \o splitlines(SubSeq(s, Leftmost(N) + 1, Len(s)))

\* ---------------------------------------------------- parse_model_reply
Return(v) == [exc |-> "", value |-> v]
NoRecord == [score |-> 0, grade |-> "", feedback |-> <<>>, raw_response |-> <<>>]
Raise(e) == [exc |-> e, value |-> NoRecord]

\* the score extraction with the fallback scan tried before the Score token
ExtractScore_fallback_first(reply_text) ==
  LET score_match == SCORE_RE(reply_text)
      nums == FindallFirst(reply_text)
  IN IF nums.found THEN Float(reply_text, nums.from, nums.to)
     ELSE IF score_match.found THEN Float(reply_text, score_match.from, score_match.to)
     ELSE [num |-> 0, den |-> 1]

\* score_val after lines 151-168: the Score token, else the first fallback
\* number, else 0.0
ExtractScore(reply_text) ==
  LET score_match == SCORE_RE(reply_text)
      nums == FindallFirst(reply_text)
  IN IF score_match.found THEN Float(reply_text, score_match.from, score_match.to)
     ELSE IF nums.found THEN Float(reply_text, nums.from, nums.to)
     ELSE [num |-> 0, den |-> 1]

parse_model_reply(reply_text) ==
  LET grade_match == GRADE_RE(reply_text)
      feedback_match == FEEDBACK_RE(reply_text)
      score_val == clamp_score(ExtractScore(reply_text))
      score_int == RoundHalfEven(score_val)
      grade_str == IF grade_match # "" THEN grade_match ELSE infer_grade(score_val)
      feedback_str == IF feedback_match.found
                      THEN Strip(SubSeq(reply_text, feedback_match.from, feedback_match.to - 1))
                      ELSE <<NoFeedbackFound>>
      lines == splitlines(feedback_str)
  IN IF lines = <<>> THEN Raise("IndexError")
     ELSE Return([score |-> score_int, grade |-> grade_str,
                  feedback |-> Strip(lines[1]), raw_response |-> reply_text])

\* ------------------------------------------------------------ reply texts
Fragments ==
  { <<"Score", ":", " ">>, <<"Score", ":", " ", "8">>, <<"/", "1", "0">>,
    <<"Grade", ":", " ">>, <<"Feedback", ":">>,
    <<" ">>, <<"\n">>, <<"b", "+">>, <<"A">>, <<"x">>,
    <<"0">>, <<"7", " ">>, <<"8">>, <<".", "5">>, <<".", "6">> }

RECURSIVE Texts(_)
\* every concatenation of at most k fragments
Texts(k) ==
  IF k = 0 THEN {<<>>}
  ELSE LET prev == Texts(k - 1) IN prev \cup {t \o f : t \in prev, f \in Fragments}

\* replies the completion service is made to return to the pipeline
SampleReplies ==
  { <<"Score", ":", " ", "7", "/", "1", "0", "\n", "Grade", ":", " ", "A", "\n",
      "Feedback", ":", " ", "x", "\n", "x">>,
    <<"8", ".", "5">>,
    <<"Feedback", ":", " ">> }

\* the three searches of lines 147-149 and the outcome of parse_model_reply
\* for every sample reply
SampleParses ==
  [t \in SampleReplies |->
     [searches |-> [score |-> SCORE_RE(t), grade |-> GRADE_RE(t),
                    feedback |-> FEEDBACK_RE(t), reply |-> t],
      out |-> parse_model_reply(t)]]

\* ------------------------------------------------------------ build_messages
SystemPrompt == "You are a professional, fair WAEC examiner. ..."

RECURSIVE Join(_)
\* ", ".join(keywords)
Join(keywords) ==
  IF Len(keywords) = 0 THEN <<>>
  ELSE IF Len(keywords) = 1 THEN keywords
  ELSE <<Head(keywords), ", ">> \o Join(Tail(keywords))

build_messages(question, model_answer, student_answer, keywords) ==
  LET keyword_str == IF keywords # <<>> THEN Join(keywords) ELSE <<"None">>
      user_prompt == <<"Question: ", question, "\n", "Model Answer: ", model_answer, "\n",
                       "Student Answer: ", student_answer, "\n", "Keywords: ">>
                     \o keyword_str \o <<"\n">>
  IN << [role |-> "system", content |-> <<SystemPrompt>>],
        [role |-> "user", content |-> user_prompt] >>

\* EvaluationInput
Inputs ==
  { [question |-> "q1", real_answer |-> "a1", student_answer |-> "s1", keywords |-> <<>>],
    [question |-> "q2", real_answer |-> "a2", student_answer |-> "s2", keywords |-> <<"k1", "k2">>] }

\* -------------------------------------------------------- configuration
\* the module-level names of lines 16-24 (decimals kept as written)
StartupConfig ==
  [ DEFAULT_TEMPERATURE |-> "0.1", DEFAULT_TOP_P |-> "0.9", DEFAULT_MAX_TOKENS |-> 256,
    DEFAULT_SEED |-> 42, MODEL_NAME |-> "mistralai/mistral-7b-instruct",
    OPENROUTER_URL |-> "https://openrouter.ai/api/v1/chat/completions" ]

\* os.getenv("OPENROUTER_API_KEY", "")
ApiKeys == {"", "sk-or-key"}

\* ------------------------------------------------------------- transport
\* what awaiting client.post / raise_for_status / resp.json() can produce
StatusCodes == {429, 500}

Payloads ==
  { [choices |-> << [message |-> [role |-> "assistant", content |-> t]] >>] : t \in SampleReplies }
  \cup { [choices |-> <<>>], [error |-> "upstream"] }

TransportOutcomes ==
  { [kind |-> "HTTPStatusError", status_code |-> c] : c \in StatusCodes }
  \cup { [kind |-> "HTTPError"], [kind |-> "JSONDecodeError"] }
  \cup { [kind |-> "json", data |-> p] : p \in Payloads }

\* data["choices"][0]["message"]["content"] does not raise
HasExpectedShape(data) ==
  /\ "choices" \in DOMAIN data
  /\ Len(data.choices) >= 1
  /\ "message" \in DOMAIN data.choices[1]
  /\ "content" \in DOMAIN data.choices[1].message

\* the request call_openrouter posts: headers and body built from the
\* module-level configuration
OutboundRequest(key, cfg, msgs) ==
  [ url |-> cfg.OPENROUTER_URL,
    headers |-> [Authorization |-> <<"Bearer ", key>>, Referer |-> "http://localhost",
                 Title |-> "TheoryMarkerAI", ContentType |-> "application/json"],
    body |-> [model |-> cfg.MODEL_NAME, messages |-> msgs,
              temperature |-> cfg.DEFAULT_TEMPERATURE, top_p |-> cfg.DEFAULT_TOP_P,
              max_tokens |-> cfg.DEFAULT_MAX_TOKENS, seed |-> cfg.DEFAULT_SEED] ]

\* ------------------------------------------------ evaluate_answer payloads
MissingConfigResponse == [error |-> "Server misconfiguration: OPENROUTER_API_KEY is missing."]

HTTPStatusErrorResponse(code) ==
  [error |-> "OpenRouter returned an error.", status_code |-> code, details |-> "HTTPStatusError"]

HTTPErrorResponse ==
  [error |-> "Network error while contacting OpenRouter.", details |-> "HTTPError"]

ExceptionResponse(e) ==
  [error |-> "Grading failed due to an unexpected error.", details |-> e]

NoResponse == [pending |-> TRUE]

Requests == 1..NumRequests

Terminal == {"DONE", "FAILED"}

VARIABLES
  api_key,      \* module global api_key
  config,       \* the other module-level configuration names
  pc,           \* pc[r]: the stage request r is at
  input,        \* input[r]: the EvaluationInput of request r
  messages,     \* messages[r]: local of grade_with_mistral
  posted,       \* posted[r]: the request client.post sent for request r
  calls,        \* calls[r]: client.post calls made for request r
  delivered,    \* delivered[r]: what the transport gave back to request r
  data,         \* data[r]: local of grade_with_mistral
  matches,      \* matches[r]: the three regex searches of parse_model_reply
  result,       \* result[r]: the record parse_model_reply is about to return
  response,     \* response[r]: the payload evaluate_answer returned
  reply_text,   \* argument of a direct parse_model_reply call
  record,       \* its outcome
  parses        \* SampleParses, evaluated once at the start and then looked up

rvars == <<pc, input, messages, posted, calls, delivered, data, matches, result, response>>
vars == <<api_key, config, pc, input, messages, posted, calls, delivered, data, matches,
          result, response, reply_text, record, parses>>

NotParsed == Raise("not parsed")
NoInput == [question |-> "", real_answer |-> "", student_answer |-> "", keywords |-> <<>>]
NoOutcome == [kind |-> "none"]
NoRequest == [none |-> TRUE]
NoData == [none |-> TRUE]
NoMatches == [score |-> NoMatch, grade |-> "", feedback |-> NoMatch, reply |-> <<>>]

RequestsIdle ==
  /\ pc = [r \in Requests |-> "idle"]
  /\ input = [r \in Requests |-> NoInput]
  /\ messages = [r \in Requests |-> <<>>]
  /\ posted = [r \in Requests |-> NoRequest]
  /\ calls = [r \in Requests |-> 0]
  /\ delivered = [r \in Requests |-> NoOutcome]
  /\ data = [r \in Requests |-> NoData]
  /\ matches = [r \in Requests |-> NoMatches]
  /\ result = [r \in Requests |-> NotParsed]
  /\ response = [r \in Requests |-> NoResponse]

Init ==
  /\ api_key \in ApiKeys
  /\ config = StartupConfig
  /\ RequestsIdle
  /\ reply_text = <<>>
  /\ record = NotParsed
  /\ parses = SampleParses

\* evaluate_answer without the credential check
evaluate_answer_no_key_check(r, in) ==
  /\ pc[r] = "idle"
  /\ input' = [input EXCEPT ![r] = in]
  /\ pc' = [pc EXCEPT ![r] = "BUILT"]
  /\ messages' = [messages EXCEPT ![r] =
         build_messages(in.question, in.real_answer, in.student_answer, in.keywords)]
  /\ UNCHANGED <<api_key, config, posted, calls, delivered, data, matches, result, response,
                 reply_text, record, parses>>

\* evaluate_answer up to the first await: the credential check (208-211),
\* then grade_with_mistral's build_messages (193)
evaluate_answer(r, in) ==
  /\ pc[r] = "idle"
  /\ input' = [input EXCEPT ![r] = in]
  /\ IF api_key = ""
     THEN /\ pc' = [pc EXCEPT ![r] = "FAILED"]
          /\ response' = [response EXCEPT ![r] = MissingConfigResponse]
          /\ UNCHANGED messages
     ELSE /\ pc' = [pc EXCEPT ![r] = "BUILT"]
          /\ messages' = [messages EXCEPT ![r] =
                 build_messages(in.question, in.real_answer, in.student_answer, in.keywords)]
          /\ UNCHANGED response
  /\ UNCHANGED <<api_key, config, posted, calls, delivered, data, matches, result,
                 reply_text, record, parses>>

\* call_openrouter up to its await: headers, body, client.post (124-141)
call_openrouter(r) ==
  /\ pc[r] = "BUILT"
  /\ posted' = [posted EXCEPT ![r] = OutboundRequest(api_key, config, messages[r])]
  /\ calls' = [calls EXCEPT ![r] = @ + 1]
  /\ pc' = [pc EXCEPT ![r] = "SENT"]
  /\ UNCHANGED <<api_key, config, input, messages, delivered, data, matches, result,
                 response, reply_text, record, parses>>

\* Receive with a network error answered by posting the request again
Receive_retry(r, o) ==
  /\ pc[r] = "SENT"
  /\ delivered' = [delivered EXCEPT ![r] = o]
  /\ CASE o.kind = "HTTPStatusError" ->
            /\ pc' = [pc EXCEPT ![r] = "FAILED"]
            /\ response' = [response EXCEPT ![r] = HTTPStatusErrorResponse(o.status_code)]
            /\ UNCHANGED data
       [] o.kind = "HTTPError" ->
            /\ pc' = [pc EXCEPT ![r] = "BUILT"]
            /\ UNCHANGED <<response, data>>
       [] o.kind = "JSONDecodeError" ->
            /\ pc' = [pc EXCEPT ![r] = "FAILED"]
            /\ response' = [response EXCEPT ![r] = ExceptionResponse("JSONDecodeError")]
            /\ UNCHANGED data
       [] o.kind = "json" ->
            /\ pc' = [pc EXCEPT ![r] = "RECEIVED"]
            /\ data' = [data EXCEPT ![r] = o.data]
            /\ UNCHANGED response
  /\ UNCHANGED <<api_key, config, input, messages, posted, calls, matches, result,
                 reply_text, record, parses>>

\* the await of line 141 completes: a transport exception, a non-2xx status
\* (142), an undecodable body or the decoded payload (143); the handlers of
\* lines 221-236 turn an exception into a payload
Receive(r, o) ==
  /\ pc[r] = "SENT"
  /\ delivered' = [delivered EXCEPT ![r] = o]
  /\ CASE o.kind = "HTTPStatusError" ->
            /\ pc' = [pc EXCEPT ![r] = "FAILED"]
            /\ response' = [response EXCEPT ![r] = HTTPStatusErrorResponse(o.status_code)]
            /\ UNCHANGED data
       [] o.kind = "HTTPError" ->
            /\ pc' = [pc EXCEPT ![r] = "FAILED"]
            /\ response' = [response EXCEPT ![r] = HTTPErrorResponse]
            /\ UNCHANGED data
       [] o.kind = "JSONDecodeError" ->
            /\ pc' = [pc EXCEPT ![r] = "FAILED"]
            /\ response' = [response EXCEPT ![r] = ExceptionResponse("JSONDecodeError")]
            /\ UNCHANGED data
       [] o.kind = "json" ->
            /\ pc' = [pc EXCEPT ![r] = "RECEIVED"]
            /\ data' = [data EXCEPT ![r] = o.data]
            /\ UNCHANGED response
  /\ UNCHANGED <<api_key, config, input, messages, posted, calls, matches, result,
                 reply_text, record, parses>>

\* Extract reading the payload from a slot all requests share
Extract_any(r) ==
  /\ pc[r] = "RECEIVED"
  /\ \E q \in Requests :
       /\ data[q] # NoData
       /\ IF HasExpectedShape(data[q])
          THEN LET reply == data[q].choices[1].message.content
               IN /\ matches' = [matches EXCEPT ![r] = parses[reply].searches]
                  /\ pc' = [pc EXCEPT ![r] = "PARSED"]
                  /\ UNCHANGED response
          ELSE /\ pc' = [pc EXCEPT ![r] = "FAILED"]
               /\ response' = [response EXCEPT ![r] =
                      ExceptionResponse("Unexpected API response shape")]
               /\ UNCHANGED matches
  /\ UNCHANGED <<api_key, config, input, messages, posted, calls, delivered, data, result,
                 reply_text, record, parses>>

\* grade_with_mistral's defensive extraction (197-200) and the three regex
\* searches that open parse_model_reply (147-149)
Extract(r) ==
  /\ pc[r] = "RECEIVED"
  /\ IF HasExpectedShape(data[r])
     THEN LET reply == data[r].choices[1].message.content
          IN /\ matches' = [matches EXCEPT ![r] = parses[reply].searches]
             /\ pc' = [pc EXCEPT ![r] = "PARSED"]
             /\ UNCHANGED response
     ELSE /\ pc' = [pc EXCEPT ![r] = "FAILED"]
          /\ response' = [response EXCEPT ![r] =
                 ExceptionResponse("Unexpected API response shape")]
          /\ UNCHANGED matches
  /\ UNCHANGED <<api_key, config, input, messages, posted, calls, delivered, data, result,
                 reply_text, record, parses>>

\* the rest of parse_model_reply (151-181): defaults, clamp, round, grade,
\* first feedback line; an exception reaches the handler of line 232
Validate(r) ==
  /\ pc[r] = "PARSED"
  /\ LET out == parses[matches[r].reply].out
     IN IF out.exc = ""
        THEN /\ result' = [result EXCEPT ![r] = out]
             /\ pc' = [pc EXCEPT ![r] = "VALIDATED"]
             /\ UNCHANGED response
        ELSE /\ pc' = [pc EXCEPT ![r] = "FAILED"]
             /\ response' = [response EXCEPT ![r] = ExceptionResponse(out.exc)]
             /\ UNCHANGED result
  /\ UNCHANGED <<api_key, config, input, messages, posted, calls, delivered, data, matches,
                 reply_text, record, parses>>

\* the returns of lines 183-188, 202 and 220
ReturnResult(r) ==
  /\ pc[r] = "VALIDATED"
  /\ response' = [response EXCEPT ![r] = result[r].value]
  /\ pc' = [pc EXCEPT ![r] = "DONE"]
  /\ UNCHANGED <<api_key, config, input, messages, posted, calls, delivered, data, matches,
                 result, reply_text, record, parses>>

\* the steps of request r after the call has come in
RequestStep(r) ==
  \/ call_openrouter(r)
  \/ \E o \in TransportOutcomes : Receive(r, o)
  \/ Extract(r)
  \/ Validate(r)
  \/ ReturnResult(r)

Next ==
  \/ \E r \in Requests, in \in Inputs : evaluate_answer(r, in)
  \/ \E r \in Requests : RequestStep(r)

Spec == Init /\ [][Next]_vars

\* the event loop runs every coroutine that can run, and the 30 s timeout of
\* line 140 ends every await
FairSpec == Spec /\ \A r \in Requests : WF_vars(RequestStep(r))

\* ------------------------------------- parse_model_reply called directly
ParseInit ==
  /\ api_key \in {"sk-or-key"}
  /\ config = StartupConfig
  /\ RequestsIdle
  /\ reply_text \in Texts(MaxFrags)
  /\ record = NotParsed
  /\ parses = SampleParses

ParseReply ==
  /\ record = NotParsed
  /\ record' = parse_model_reply(reply_text)
  /\ UNCHANGED <<api_key, config, rvars, reply_text, parses>>

ParseNext == ParseReply

ParseSpec == ParseInit /\ [][ParseNext]_vars

\* ==================================================================== claims

Parsed == record # NotParsed
Returned == record.exc = ""
Score == record.value.score
Grade == record.value.grade

\* C1: parse_model_reply never raises and always returns a non-empty
\* feedback, whatever the reply text is.
C1_NeverRaises == Parsed => (Returned /\ record.value.feedback # <<>>)

\* C2: whenever parse_model_reply returns a record, its score is an integer
\* in 0..10, also for numbers above 10, and it is 0 when the reply has no
\* digit at all.
C2_ScoreInRange ==
  Returned =>
    /\ Score \in 0..10
    /\ (\A i \in 1..Len(reply_text) : ~IsDigit(reply_text[i])) => Score = 0

\* a reply that says 88/10 has been parsed to score 10
C2_Witness ==
  /\ Returned
  /\ reply_text = <<"Score", ":", " ", "8", "8", "/", "1", "0">>
  /\ Score = 10

\* C3: the grade of a returned record is one of the letters A..F.
C3_GradeIsLetter == Returned => Grade \in UpperGradeLetters

\* C4: a clamped score of n + 0.5 is returned as n + 1, a clamped score of
\* n + 0.4 as n.
C4_RoundsHalfUp ==
  Returned =>
    LET v == clamp_score(ExtractScore(reply_text))
        n == v.num \div v.den
        frac == v.num % v.den
    IN /\ 2 * frac = v.den => Score = n + 1
       /\ 10 * frac = 4 * v.den => Score = n

\* the grade table of the design, on the integer score
GradeTable(n) ==
  IF n >= 9 THEN "A" ELSE IF n >= 8 THEN "B" ELSE IF n >= 7 THEN "C"
  ELSE IF n >= 6 THEN "D" ELSE IF n >= 5 THEN "E" ELSE "F"

HasGradeSymbol == \E i \in 1..Len(reply_text) : reply_text[i] = "Grade"

\* C5: when the reply has no Grade token, the returned grade is the grade
\* table applied to the integer score of the same record.
C5_GradeFromRoundedScore == (Returned /\ ~HasGradeSymbol) => Grade = GradeTable(Score)

\* a well-formed Score token with the single digit d starts at position i
ScoreTokenAt(i, d) ==
  /\ i + 6 <= Len(reply_text)
  /\ SubSeq(reply_text, i, i + 6) = <<"Score", ":", " ", d, "/", "1", "0">>

NoScoreToken ==
  \/ \A i \in 1..Len(reply_text) : reply_text[i] # "Score"
  \/ \A i \in 1..Len(reply_text) : reply_text[i] # "/"

FirstDigitAt(i) ==
  /\ i \in 1..Len(reply_text)
  /\ IsDigit(reply_text[i])
  /\ \A j \in 1..(i - 1) : ~IsDigit(reply_text[j])

\* C10: the number of the first Score token is the score, whatever bare
\* number stands before it; with no Score token the first standalone number
\* in [0,10] is the score.
C10_ScorePrecedence ==
  Returned =>
    /\ \A i \in 1..Len(reply_text) : \A d \in Digits :
         ( /\ ScoreTokenAt(i, d)
           /\ \A j \in 1..(i - 1) : reply_text[j] # "Score" ) => Score = DigitVal(d)
    /\ NoScoreToken =>
         \A i \in 1..Len(reply_text) :
           (FirstDigitAt(i) /\ ~IsWord(At(reply_text, i - 1))) =>
             /\ (~IsWord(At(reply_text, i + 1)) /\ At(reply_text, i + 1) # ".")
                  => Score = DigitVal(reply_text[i])
             /\ (reply_text[i] = "1" /\ At(reply_text, i + 1) = "0"
                 /\ ~IsWord(At(reply_text, i + 2))) => Score = 10

\* the bare number 7 stands before the token "Score: 8/10" and the score is 8
C10_Witness ==
  /\ Returned
  /\ reply_text = <<"7", " ", "Score", ":", " ", "8", "/", "1", "0">>
  /\ Score = 8

\* C6: with no credential configured every /evaluate call ends with the
\* missing-configuration payload and nothing is ever posted to the
\* completion service.
C6_NoTransportWithoutKey ==
  api_key = "" =>
    /\ \A r \in Requests :
         /\ calls[r] = 0
         /\ posted[r] = NoRequest
         /\ pc[r] # "idle" => (pc[r] = "FAILED" /\ response[r] = MissingConfigResponse)

\* every request has been answered without a credential
C6_Witness ==
  /\ api_key = ""
  /\ \A r \in Requests : pc[r] = "FAILED" /\ response[r] = MissingConfigResponse

Stages == <<"idle", "BUILT", "SENT", "RECEIVED", "PARSED", "VALIDATED", "DONE">>

StageNo(s) == CHOOSE i \in 1..Len(Stages) : Stages[i] = s

\* a step of request r: the next stage, or FAILED from a stage before DONE
StageStep(r) ==
  \/ /\ pc[r] \notin Terminal
     /\ pc'[r] = "FAILED" \/ StageNo(pc'[r]) = StageNo(pc[r]) + 1
  \/ /\ pc'[r] = pc[r]
     /\ pc[r] \in Terminal => (response'[r] = response[r] /\ calls'[r] = calls[r])

\* C7: a request passes its stages in order, posts at most once, never
\* leaves DONE or FAILED, and every request that came in reaches one of them.
C7_RequestLifecycle ==
  /\ [][\A r \in Requests : StageStep(r)]_vars
  /\ [](\A r \in Requests : calls[r] <= 1)
  /\ \A r \in Requests : (pc[r] # "idle") ~> (pc[r] \in Terminal)

\* one request is DONE, another FAILED after its single post
C7_Witness ==
  \E r, q \in Requests :
    /\ pc[r] = "DONE" /\ calls[r] = 1
    /\ pc[q] = "FAILED" /\ calls[q] = 1 /\ delivered[q].kind = "HTTPError"

\* C8: the payload of every failed call has an 'error' and a 'details' key.
C8_ErrorAndDetails ==
  \A r \in Requests : pc[r] = "FAILED" => {"error", "details"} \subseteq DOMAIN response[r]

\* what /evaluate answers when it serves one request alone
Alone(key, o) ==
  IF key = "" THEN MissingConfigResponse
  ELSE IF o.kind = "HTTPStatusError" THEN HTTPStatusErrorResponse(o.status_code)
  ELSE IF o.kind = "HTTPError" THEN HTTPErrorResponse
  ELSE IF o.kind = "JSONDecodeError" THEN ExceptionResponse("JSONDecodeError")
  ELSE IF ~HasExpectedShape(o.data) THEN ExceptionResponse("Unexpected API response shape")
  ELSE LET out == parse_model_reply(o.data.choices[1].message.content)
       IN IF out.exc = "" THEN out.value ELSE ExceptionResponse(out.exc)

\* C9: under every interleaving the answer to a request is the answer it
\* would get alone, from its own transport reply, and no step changes the
\* configuration set at startup.
C9_Independent ==
  /\ [](\A r \in Requests : pc[r] \in Terminal => response[r] = Alone(api_key, delivered[r]))
  /\ [][api_key' = api_key /\ config' = config]_vars
  /\ [](config = StartupConfig)

\* two requests in flight together were given different replies and got
\* different answers
C9_Witness ==
  \E r, q \in Requests :
    /\ pc[r] = "DONE" /\ pc[q] = "DONE"
    /\ delivered[r] # delivered[q]
    /\ response[r] # response[q]

====
